---- MODULE Spec2Model ----
(***************************************************************************)
(* edc2svd: conversion of an EDC register description into an SVD one.     *)
(*                                                                         *)
(* Text (attribute values, element text) is a sequence of one-character    *)
(* strings.  A u32 is a pair <<hi, lo>> of 16-bit halves, so that the      *)
(* segment mask 0xA0000000 and the wrap at 2^32 keep their real width.     *)
(***************************************************************************)
EXTENDS Integers, Sequences, FiniteSets, TLC

\* ------------------------------------------------------------------ u32
\* 2^16: the modulus of one half of a u32
Half == 256 * 256

U32(hi, lo) == <<hi, lo>>
Zero32 == U32(0, 0)
U32Small(n) == U32(0, n)

\* a < b on u32
Lt32(a, b) == a[1] < b[1] \/ (a[1] = b[1] /\ a[2] < b[2])
\* a <= b on u32
Le32(a, b) == a = b \/ Lt32(a, b)

\* a + b overflows u32
AddOverflows(a, b) == a[1] + b[1] + ((a[2] + b[2]) \div Half) >= Half
\* a + b modulo 2^32
WrappingAdd(a, b) ==
    U32((a[1] + b[1] + ((a[2] + b[2]) \div Half)) % Half, (a[2] + b[2]) % Half)
\* a - b modulo 2^32
WrappingSub(a, b) ==
    LET borrow == IF a[2] < b[2] THEN 1 ELSE 0
    IN  U32((a[1] - b[1] - borrow + Half) % Half, (a[2] - b[2] + Half) % Half)

\* The result of a checked u32 operation: a value, or the panic a debug build
\* raises ("attempt to add/subtract with overflow").
Val(v) == [ok |-> TRUE, v |-> v]
Panic == [ok |-> FALSE, v |-> Zero32]

\* a + b as the build computes it: a debug build panics on overflow, a
\* release build wraps.
Add32(build, a, b) ==
    IF AddOverflows(a, b) /\ build = "debug" THEN Panic ELSE Val(WrappingAdd(a, b))
\* a - b as the build computes it
Sub32(build, a, b) ==
    IF Lt32(a, b) /\ build = "debug" THEN Panic ELSE Val(WrappingSub(a, b))

\* bit b (a power of two below 2^16) of a 16-bit value, set
OrBit(h, b) == IF (h \div b) % 2 = 1 THEN h ELSE h + b
\* addr | 0xA000_0000: bits 31 and 29, i.e. bits 15 and 13 of the high half
OrKseg1(a) == U32(OrBit(OrBit(a[1], 32768), 8192), a[2])

\* ------------------------------------------------------------------ text
LowerDigits == <<"0", "1", "2", "3", "4", "5", "6", "7", "8", "9",
                 "a", "b", "c", "d", "e", "f">>
UpperDigits == <<"0", "1", "2", "3", "4", "5", "6", "7", "8", "9",
                 "A", "B", "C", "D", "E", "F">>

\* char::to_digit(radix): the digit's value, or -1
ToDigit(c, radix) ==
    IF \E i \in 1..radix : LowerDigits[i] = c
    THEN (CHOOSE i \in 1..radix : LowerDigits[i] = c) - 1
    ELSE IF \E i \in 1..radix : UpperDigits[i] = c
    THEN (CHOOSE i \in 1..radix : UpperDigits[i] = c) - 1
    ELSE -1

\* acc * radix + d, or Panic (here: Err(PosOverflow)) when it leaves u32
MulAdd(acc, radix, d) ==
    LET lo == acc[2] * radix + d
        hi == acc[1] * radix + (lo \div Half)
    IN  IF hi >= Half THEN Panic ELSE Val(U32(hi, lo % Half))

RECURSIVE ParseDigits(_, _, _)
ParseDigits(s, radix, acc) ==
    IF s = <<>> THEN Val(acc)
    ELSE IF ToDigit(Head(s), radix) < 0 THEN Panic
    ELSE LET nxt == MulAdd(acc, radix, ToDigit(Head(s), radix))
         IN  IF nxt.ok THEN ParseDigits(Tail(s), radix, nxt.v) ELSE Panic

\* u32::from_str_radix: Err on the empty string, a lone sign, a character that
\* is no digit of the radix (a leading '-' included), or overflow; a leading
\* '+' is accepted.
from_str_radix(src, radix) ==
    IF src = <<>> THEN Panic
    ELSE IF Len(src) = 1 /\ Head(src) \in {"+", "-"} THEN Panic
    ELSE IF Head(src) = "+" THEN ParseDigits(Tail(src), radix, Zero32)
    ELSE ParseDigits(src, radix, Zero32)

StartsWith(text, prefix) ==
    Len(text) >= Len(prefix) /\ SubSeq(text, 1, Len(prefix)) = prefix

parse_u32(text) ==
    IF StartsWith(text, <<"0", "x">>)
    THEN from_str_radix(SubSeq(text, 3, Len(text)), 16)
    ELSE from_str_radix(text, 10)

\* v divided by a radix below 2^16: <<quotient, remainder>>
DivRem(v, radix) ==
    LET mid == (v[1] % radix) * Half + v[2]
    IN  <<U32(v[1] \div radix, mid \div radix), mid % radix>>

RECURSIVE FormatRadix(_, _)
FormatRadix(v, radix) ==
    LET qr == DivRem(v, radix)
    IN  IF qr[1] = Zero32 THEN <<LowerDigits[qr[2] + 1]>>
        ELSE FormatRadix(qr[1], radix) \o <<LowerDigits[qr[2] + 1]>>

\* format!("0x{:0x}", v)
FormatHex(v) == <<"0", "x">> \o FormatRadix(v, 16)
\* format!("{}", v)
FormatDec(v) == FormatRadix(v, 10)
\* format!("[{}:{}]", msb, lsb)
FormatBitRange(msb, lsb) ==
    <<"[">> \o FormatDec(msb) \o <<":">> \o FormatDec(lsb) \o <<"]">>

\* Option<T>: None, or Some(x)
None == <<>>
Some(x) == <<x>>

\* ------------------------------------------------------- output elements
\* add_elem_with_text children of a <field>
FieldElem(fname, msb, lsb) ==
    [name |-> fname, bitRange |-> FormatBitRange(msb, lsb)]

\* The state of the loop over the mode block's children
LayoutState(bitpos, fields) == [ok |-> TRUE, bitpos |-> bitpos, fields |-> fields]
LayoutPanic == [ok |-> FALSE, bitpos |-> Zero32, fields |-> <<>>]

\* One SFRFieldDef entry, from the width on: the bit range is
\* [bitpos + width - 1 : bitpos], computed in u32, and bitpos += width.
FieldDefRange(elem, st, sum, msb) ==
    IF ~msb.ok THEN LayoutPanic
    ELSE LayoutState(sum, Append(st.fields, FieldElem(elem.cname[1], msb.v, st.bitpos)))
\* FieldDefSum with the most significant bit taken as bitpos + width
FieldDefSumOffByOne(build, elem, st, sum) ==
    IF ~sum.ok THEN LayoutPanic
    ELSE FieldDefRange(elem, st, sum.v, Val(sum.v))
FieldDefSum(build, elem, st, sum) ==
    IF ~sum.ok THEN LayoutPanic
    ELSE FieldDefRange(elem, st, sum.v, Sub32(build, sum.v, U32Small(1)))
FieldDefWidth(build, elem, st, width) ==
    IF ~width.ok THEN LayoutPanic
    ELSE FieldDefSum(build, elem, st, Add32(build, st.bitpos, width.v))

\* One SFRFieldDef entry: the attributes cname, name and nzwidth must exist
\* (indexing a missing attribute panics) and nzwidth must parse.  A cname
\* that differs from name is only logged (warn!).
FieldDefStep(build, elem, st) ==
    IF elem.cname = None \/ elem.name = None \/ elem.nzwidth = None
    THEN LayoutPanic
    ELSE FieldDefWidth(build, elem, st, parse_u32(elem.nzwidth[1]))

\* One AdjustPoint entry: bitpos += offset, no field
AdjustPointSum(st, sum) ==
    IF ~sum.ok THEN LayoutPanic ELSE LayoutState(sum.v, st.fields)
AdjustPointOffset(build, st, offset) ==
    IF ~offset.ok THEN LayoutPanic
    ELSE AdjustPointSum(st, Add32(build, st.bitpos, offset.v))
AdjustPointStep(build, elem, st) ==
    IF elem.offset = None THEN LayoutPanic
    ELSE AdjustPointOffset(build, st, parse_u32(elem.offset[1]))

\* The body of the loop: any other element panics
LayoutStep(build, elem, st) ==
    IF elem.tag = "SFRFieldDef" THEN FieldDefStep(build, elem, st)
    ELSE IF elem.tag = "AdjustPoint" THEN AdjustPointStep(build, elem, st)
    ELSE LayoutPanic

\* for elem in sfrmode_e.children.iter() { ... }, from bitpos = 0
RECURSIVE LayoutLoop(_, _, _)
LayoutLoop(build, children, st) ==
    IF ~st.ok \/ children = <<>> THEN st
    ELSE LayoutLoop(build, Tail(children), LayoutStep(build, Head(children), st))

FieldLayout(build, sfrmode) == LayoutLoop(build, sfrmode, LayoutState(Zero32, <<>>))

\* if bitpos > 0 { reg_e.children.push(fields_e) }
FieldsAttached(layout) == Lt32(Zero32, layout.bitpos)

RegisterText == <<" ", "r", "e", "g", "i", "s", "t", "e", "r">>

\* The <register> element add_register builds
RegisterElem(name, offset, reset_val, layout) ==
    [name          |-> name,
     description   |-> name \o RegisterText,
     addressOffset |-> FormatHex(offset),
     size          |-> <<"3", "2">>,
     resetValue    |-> FormatDec(reset_val),
     fields        |-> IF FieldsAttached(layout) THEN Some(layout.fields) ELSE None]

\* The result of a step on the output tree: the tree, or a panic that leaves
\* the tree as it was when the panic was raised
TreeOk(tree) == [ok |-> TRUE, tree |-> tree]
TreePanic(tree) == [ok |-> FALSE, tree |-> tree]

\* peri_out_e.children.last_mut().unwrap(), then its <registers> child: the
\* register is appended to the most recently opened peripheral; with no
\* peripheral the unwrap panics.
PushRegister(tree, reg) ==
    [tree EXCEPT ![Len(tree)].registers = Append(@, reg)]

\* add_register once the mode block is laid out
PushLaidOut(tree, name, offset, reset_val, layout) ==
    IF ~layout.ok THEN TreePanic(tree)
    ELSE TreeOk(PushRegister(tree, RegisterElem(name, offset, reset_val, layout)))

add_register(build, tree, name, offset, reset_val, sfrmode) ==
    IF tree = <<>> THEN TreePanic(tree)
    ELSE PushLaidOut(tree, name, offset, reset_val, FieldLayout(build, sfrmode))

\* ------------------------------------------------------- input elements
\* An element of the input tree: its tag, its attributes (each None or
\* Some(text)) and, for an SFRDef, its SFRModeList: None when the child is
\* missing, Some(None) when it holds no SFRMode, Some(Some(children)) with
\* the children of the first SFRMode otherwise.
NoAttrs ==
    [addr |-> None, name |-> None, cname |-> None, portals |-> None,
     mclr |-> None, baseofperipheral |-> None, memberofperipheral |-> None,
     grp |-> None, modsrc |-> None, regionid |-> None]
Element(tag, attr, modelist) == [tag |-> tag, attr |-> attr, modelist |-> modelist]
\* the loop variable before the first iteration
NoChild == Element("", NoAttrs, None)

\* ------------------------------------------------------- analyze_periph
\* DecodePortals that takes an unknown value as "- - -"
DecodePortalsLenient(portals) ==
    LET p == IF portals = None THEN "- - -" ELSE portals[1]
    IN  IF p = "CLR SET INV" THEN [ok |-> TRUE, clr |-> TRUE, set |-> TRUE, inv |-> TRUE]
        ELSE IF p = "CLR - -" THEN [ok |-> TRUE, clr |-> TRUE, set |-> FALSE, inv |-> FALSE]
        ELSE [ok |-> TRUE, clr |-> FALSE, set |-> FALSE, inv |-> FALSE]

\* match portals.as_ref() { ... }: the flags (clr, set, inv); an absent
\* attribute counts as "- - -", any other value panics
DecodePortals(portals) ==
    LET p == IF portals = None THEN "- - -" ELSE portals[1]
    IN  IF p = "CLR SET INV" THEN [ok |-> TRUE, clr |-> TRUE, set |-> TRUE, inv |-> TRUE]
        ELSE IF p = "CLR - -" THEN [ok |-> TRUE, clr |-> TRUE, set |-> FALSE, inv |-> FALSE]
        ELSE IF p = "- - -" THEN [ok |-> TRUE, clr |-> FALSE, set |-> FALSE, inv |-> FALSE]
        ELSE [ok |-> FALSE, clr |-> FALSE, set |-> FALSE, inv |-> FALSE]

\* .replace("-", "0").replace("x", "0").replace("u", "0")
ReplacePlaceholders(text) ==
    [i \in 1..Len(text) |-> IF text[i] \in {"-", "x", "u"} THEN "0" ELSE text[i]]

\* the reset value: mclr with the placeholders mapped to 0, read as binary
DecodeReset(mclr) ==
    IF mclr = None THEN Panic ELSE from_str_radix(ReplacePlaceholders(mclr[1]), 2)

\* the _modsrc lookup table
ModsrcPeripheral(ms) ==
    IF ms \in {"DOS-01618_RPINRx.Module", "DOS-01618_RPORx.Module",
               "DOS-01423_RPINRx.Module", "DOS-01423_RPORx.Module"}
    THEN <<"P", "P", "S">>
    ELSE IF ms = "DOS-01475_lpwr_deep_sleep_ctrl_v2.Module"
    THEN <<"D", "S", "C", "T", "R", "L">>
    ELSE <<>>

\* FirstWord that splits at any whitespace
RECURSIVE FirstWordAnyWhitespace(_)
FirstWordAnyWhitespace(text) ==
    IF text = <<>> \/ Head(text) \in {" ", "\t"} THEN <<>>
    ELSE <<Head(text)>> \o FirstWordAnyWhitespace(Tail(text))

\* cperi.split(' ').collect()[0]: the text before the first space character
RECURSIVE FirstWord(_)
FirstWord(text) ==
    IF text = <<>> \/ Head(text) = " " THEN <<>>
    ELSE <<Head(text)>> \o FirstWord(Tail(text))

\* memberofperipheral, taken as absent when it is the empty string
NonEmptyMember(attr) ==
    IF attr.memberofperipheral # None /\ Len(attr.memberofperipheral[1]) # 0
    THEN attr.memberofperipheral ELSE None

\* PeripheralHint that asks memberofperipheral before baseofperipheral
PeripheralHintMemberFirst(attr) ==
    IF NonEmptyMember(attr) # None THEN NonEmptyMember(attr)
    ELSE IF attr.baseofperipheral # None THEN attr.baseofperipheral
    ELSE IF attr.grp # None THEN attr.grp
    ELSE IF attr.modsrc # None THEN Some(ModsrcPeripheral(attr.modsrc[1]))
    ELSE None

\* "guess peripheral": the hint chosen by the if/else-if chain, None when
\* no hint attribute exists (panic "missing peripheral")
PeripheralHint(attr) ==
    IF attr.baseofperipheral # None THEN attr.baseofperipheral
    ELSE IF NonEmptyMember(attr) # None THEN NonEmptyMember(attr)
    ELSE IF attr.grp # None THEN attr.grp
    ELSE IF attr.modsrc # None THEN Some(ModsrcPeripheral(attr.modsrc[1]))
    ELSE None

\* the inferred label cperi, or a panic: no hint, or an empty first word
\* (panic "empty peripheral info")
GuessPeripheral(attr) ==
    LET hint == PeripheralHint(attr)
    IN  IF hint = None THEN [ok |-> FALSE, cperi |-> <<>>]
        ELSE IF Len(FirstWord(hint[1])) = 0 THEN [ok |-> FALSE, cperi |-> <<>>]
        ELSE [ok |-> TRUE, cperi |-> FirstWord(hint[1])]

PeripheralText == <<" ", "p", "e", "r", "i", "p", "h", "e", "r", "a", "l">>

\* The <peripheral> element opened for a new group
PeripheralElem(peri, base_addr) ==
    [name        |-> peri,
     description |-> peri \o PeripheralText,
     baseAddress |-> FormatHex(base_addr),
     registers   |-> <<>>]

\* The locals of analyze_periph and the output tree after one iteration of
\* its loop; ok is FALSE when the iteration panicked, and the other fields
\* are then the values at the moment of the panic.
Iter(ok, tree, peri, base_addr) ==
    [ok |-> ok, tree |-> tree, peri |-> peri, base_addr |-> base_addr]

\* The arguments of the info! lines that precede the add_register call of a
\* variant hold addr + k.  info! evaluates its arguments only while the Info
\* level is enabled, and a debug build panics when the sum overflows.
LogPanics(build, verbose, addr, k) ==
    verbose /\ build = "debug" /\ AddOverflows(addr, U32Small(k))

\* if clr/set/inv { info!(...); add_register(.., name + suffix, offset + k, 0, ..) }
\* applied to the result res of the calls before it
AddVariantAt(build, res, name, suffix, off, sfrmode) ==
    IF ~off.ok THEN TreePanic(res.tree)
    ELSE add_register(build, res.tree, name \o suffix, off.v, Zero32, sfrmode)
AddVariant(build, verbose, res, flag, addr, name, suffix, offset, k, sfrmode) ==
    IF ~res.ok \/ ~flag THEN res
    ELSE IF LogPanics(build, verbose, addr, k) THEN TreePanic(res.tree)
    ELSE AddVariantAt(build, res, name, suffix, Add32(build, offset, U32Small(k)), sfrmode)

\* Synthesize with the SET variant pushed before the CLR variant
SynthesizeSetFirst(build, verbose, tree, flags, addr, name, offset, reset, sfrmode) ==
    AddVariant(build, verbose,
        AddVariant(build, verbose,
            AddVariant(build, verbose,
                add_register(build, tree, name, offset, reset, sfrmode),
                flags.set, addr, name, <<"S", "E", "T">>, offset, 8, sfrmode),
            flags.clr, addr, name, <<"C", "L", "R">>, offset, 4, sfrmode),
        flags.inv, addr, name, <<"I", "N", "V">>, offset, 12, sfrmode)

\* add_register for the register itself, then for its CLR, SET and INV
\* variants at offset + 4, + 8 and + 0xc with reset value 0
Synthesize(build, verbose, tree, flags, addr, name, offset, reset, sfrmode) ==
    AddVariant(build, verbose,
        AddVariant(build, verbose,
            AddVariant(build, verbose,
                add_register(build, tree, name, offset, reset, sfrmode),
                flags.clr, addr, name, <<"C", "L", "R">>, offset, 4, sfrmode),
            flags.set, addr, name, <<"S", "E", "T">>, offset, 8, sfrmode),
        flags.inv, addr, name, <<"I", "N", "V">>, offset, 12, sfrmode)

\* OpensGroup that opens a group for every register
OpensGroupAlways(cperi, peri) == TRUE

\* if cperi != peri { ... }: a new group is opened
OpensGroup(cperi, peri) == cperi # peri

\* OpenGroup that names the new <peripheral> before peri is updated
OpenGroupOldName(tree, peri, base_addr, cperi, addr) ==
    IF ~OpensGroup(cperi, peri) THEN Iter(TRUE, tree, peri, base_addr)
    ELSE IF ~Lt32(base_addr, addr) THEN Iter(FALSE, tree, peri, base_addr)
    ELSE Iter(TRUE, Append(tree, PeripheralElem(peri, addr)), cperi, addr)

\* OpenGroup without assert!(base_addr < addr)
OpenGroupUnchecked(tree, peri, base_addr, cperi, addr) ==
    IF ~OpensGroup(cperi, peri) THEN Iter(TRUE, tree, peri, base_addr)
    ELSE Iter(TRUE, Append(tree, PeripheralElem(cperi, addr)), cperi, addr)

\* if cperi != peri { assert!(base_addr < addr); base_addr = addr;
\* peri = cperi; periph_out_e.children.push(peri_e) }
OpenGroup(tree, peri, base_addr, cperi, addr) ==
    IF ~OpensGroup(cperi, peri) THEN Iter(TRUE, tree, peri, base_addr)
    ELSE IF ~Lt32(base_addr, addr) THEN Iter(FALSE, tree, peri, base_addr)
    ELSE Iter(TRUE, Append(tree, PeripheralElem(cperi, addr)), cperi, addr)

\* let addr = parse_u32(&attr["_addr"]).unwrap() | 0xA000_0000
PhysAddr(attr) ==
    IF attr.addr = None THEN Panic ELSE parse_u32(attr.addr[1])
MaskedAddr(attr) == OrKseg1(PhysAddr(attr).v)

\* The statements of the loop body that can panic before a group is opened:
\* the address, assert_eq!(name, cname), portals, mclr, the peripheral hint
\* and the SFRModeList/SFRMode children
Decodes(elem) ==
    /\ PhysAddr(elem.attr).ok
    /\ elem.attr.name # None /\ elem.attr.cname # None
    /\ elem.attr.name = elem.attr.cname
    /\ DecodePortals(elem.attr.portals).ok
    /\ DecodeReset(elem.attr.mclr).ok
    /\ GuessPeripheral(elem.attr).ok
    /\ elem.modelist # None /\ elem.modelist[1] # None

\* the locals and the tree once the registers are pushed
Emitted(g, r) == Iter(r.ok, r.tree, g.peri, g.base_addr)

\* PlaceRegister without assert!(base_addr <= addr)
PlaceRegisterUnchecked(build, verbose, elem, addr, g) ==
    IF ~g.ok THEN Iter(FALSE, g.tree, g.peri, g.base_addr)
    ELSE Emitted(g, Synthesize(build, verbose, g.tree, DecodePortals(elem.attr.portals),
                               addr, elem.attr.name[1], WrappingSub(addr, g.base_addr),
                               DecodeReset(elem.attr.mclr).v, elem.modelist[1][1]))

\* assert!(base_addr <= addr); let offset = addr - base_addr; add_register...
PlaceRegister(build, verbose, elem, addr, g) ==
    IF ~g.ok \/ ~Le32(g.base_addr, addr) THEN Iter(FALSE, g.tree, g.peri, g.base_addr)
    ELSE Emitted(g, Synthesize(build, verbose, g.tree, DecodePortals(elem.attr.portals),
                               addr, elem.attr.name[1], WrappingSub(addr, g.base_addr),
                               DecodeReset(elem.attr.mclr).v, elem.modelist[1][1]))

\* One iteration of the loop of analyze_periph on an SFRDef child
SFRDefBody(build, verbose, elem, tree, peri, base_addr) ==
    IF ~Decodes(elem) THEN Iter(FALSE, tree, peri, base_addr)
    ELSE PlaceRegister(build, verbose, elem, MaskedAddr(elem.attr),
                       OpenGroup(tree, peri, base_addr, GuessPeripheral(elem.attr).cperi,
                                 MaskedAddr(elem.attr)))

\* child.name == "SFRDataSector" &&
\* child.attributes.get("regionid").unwrap_or("").starts_with("periph")
Qualifies(elem) ==
    /\ elem.tag = "SFRDataSector"
    /\ StartsWith(IF elem.attr.regionid = None THEN <<>> ELSE elem.attr.regionid[1],
                  <<"p", "e", "r", "i", "p", "h">>)

\* ------------------------------------------------------------ the program
VARIABLES
    pc,          \* "main": in the loop of main; "sector": in the loop of
                 \* analyze_periph; "abort": panicked; "done": output written
    build,       \* "debug" (overflow checks) or "release" (wrapping)
    verbose,     \* whether the Info log level is enabled
    periph_out,  \* the children of the <peripherals> element built so far
    peri,        \* analyze_periph: label of the group being filled
    base_addr,   \* analyze_periph: base address of that group
    child,       \* analyze_periph: the child the loop handled last
    outfile,     \* the output document: None until it is written
    nphys,       \* children of PhysicalSpace iterated so far
    nchild       \* children of data sectors iterated so far

vars == <<pc, build, verbose, periph_out, peri, base_addr, child, outfile, nphys, nchild>>

\* the name attribute of the input document's root
DeviceName == <<"M", "C", "U">>

\* main, up to the loop over the children of PhysicalSpace
Init ==
    /\ pc = "main"
    /\ build \in {"debug", "release"}
    /\ verbose \in BOOLEAN
    /\ periph_out = <<>>
    /\ peri = <<>>
    /\ base_addr = Zero32
    /\ child = NoChild
    /\ outfile = None
    /\ nphys = 0
    /\ nchild = 0

\* main: a child of PhysicalSpace that is no peripheral data sector is skipped
SkipPhysChild(c) ==
    /\ pc = "main"
    /\ ~Qualifies(c)
    /\ nphys' = nphys + 1
    /\ UNCHANGED <<pc, build, verbose, periph_out, peri, base_addr, child, outfile, nchild>>

\* main calls analyze_periph: its locals start as peri = "", base_addr = 0
EnterSector(c) ==
    /\ pc = "main"
    /\ Qualifies(c)
    /\ pc' = "sector"
    /\ peri' = <<>>
    /\ base_addr' = Zero32
    /\ child' = NoChild
    /\ nphys' = nphys + 1
    /\ UNCHANGED <<build, verbose, periph_out, outfile, nchild>>

\* analyze_periph: a child that is no SFRDef is passed over
SkipChild(c) ==
    /\ pc = "sector"
    /\ c.tag # "SFRDef"
    /\ child' = c
    /\ nchild' = nchild + 1
    /\ UNCHANGED <<pc, build, verbose, periph_out, peri, base_addr, outfile, nphys>>

\* analyze_periph: one SFRDef child; a panic ends the process
ProcessSFRDef(c) ==
    /\ pc = "sector"
    /\ c.tag = "SFRDef"
    /\ LET r == SFRDefBody(build, verbose, c, periph_out, peri, base_addr)
       IN  /\ pc' = IF r.ok THEN "sector" ELSE "abort"
           /\ periph_out' = r.tree
           /\ peri' = r.peri
           /\ base_addr' = r.base_addr
    /\ child' = c
    /\ nchild' = nchild + 1
    /\ UNCHANGED <<build, verbose, outfile, nphys>>

\* analyze_periph returns at the end of the sector's children
EndSector ==
    /\ pc = "sector"
    /\ pc' = "main"
    /\ peri' = <<>>
    /\ base_addr' = Zero32
    /\ child' = NoChild
    /\ UNCHANGED <<build, verbose, periph_out, outfile, nphys, nchild>>

\* the <device> element main writes
DeviceElem(name, tree) == [name |-> name, peripherals |-> tree]

\* main, after the loop: the output file is created and the tree written
WriteOutput ==
    /\ pc = "main"
    /\ pc' = "done"
    /\ outfile' = Some(DeviceElem(DeviceName, periph_out))
    /\ UNCHANGED <<build, verbose, periph_out, peri, base_addr, child, nphys, nchild>>

\* ------------------------------------------------------------- the inputs
\* Constructors of input elements
SFRFieldDef(cname, name, nzwidth) ==
    [tag |-> "SFRFieldDef", cname |-> cname, name |-> name, nzwidth |-> nzwidth,
     offset |-> None]
AdjustPoint(offset) ==
    [tag |-> "AdjustPoint", cname |-> None, name |-> None, nzwidth |-> None,
     offset |-> offset]
OtherEntry ==
    [tag |-> "SFRModeComment", cname |-> None, name |-> None, nzwidth |-> None,
     offset |-> None]
Hints(bop, mop, grp, ms) ==
    [baseofperipheral |-> bop, memberofperipheral |-> mop, grp |-> grp, modsrc |-> ms]
SFRDef(addr, name, cname, portals, mclr, hints, modelist) ==
    Element("SFRDef",
            [addr |-> addr, name |-> name, cname |-> cname, portals |-> portals,
             mclr |-> mclr, baseofperipheral |-> hints.baseofperipheral,
             memberofperipheral |-> hints.memberofperipheral, grp |-> hints.grp,
             modsrc |-> hints.modsrc, regionid |-> None],
            modelist)
Sector(tag, regionid) == Element(tag, [NoAttrs EXCEPT !.regionid = regionid], None)

\* The children of PhysicalSpace met by main
PhysChildren ==
    { Sector("SFRDataSector", Some(<<"p", "e", "r", "i", "p", "h">>)),
      Sector("SFRDataSector", Some(<<"p", "e", "r", "i", "p", "h", "e", "r", "a", "l", "1">>)),
      Sector("SFRDataSector", Some(<<"b", "o", "o", "t">>)),
      Sector("SFRDataSector", None),
      Sector("DataSpace", Some(<<"p", "e", "r", "i", "p", "h">>)) }

\* A mode block with one one-bit field, and the hints of groups A and B
ModeON == Some(Some(<<SFRFieldDef(Some(<<"O", "N">>), Some(<<"O", "N">>), Some(<<"1">>))>>))
GrpA == Hints(None, None, Some(<<"A">>), None)
GrpB == Hints(None, None, Some(<<"B">>), None)
\* A well-formed register of group A at 0x1000, and the same with one
\* attribute changed
RegA(addr, cname, portals, mclr, hints, modelist) ==
    SFRDef(addr, Some(<<"R", "0">>), cname, portals, mclr, hints, modelist)

\* Registers of three groups at ascending and at descending addresses, with
\* every portals form, and one register for each way an SFRDef can be
\* malformed
GoodInputs ==
    { RegA(Some(<<"0", "x", "1", "0", "0", "0">>), Some(<<"R", "0">>), Some("CLR SET INV"), Some(<<"1", "-", "0", "x", "u">>), GrpA, ModeON),
      SFRDef(Some(<<"0", "x", "1", "0", "0", "4">>), Some(<<"R", "1">>), Some(<<"R", "1">>), None, Some(<<"0">>),
             Hints(None, Some(<<"A">>), None, None), Some(Some(<<>>))),
      SFRDef(Some(<<"0", "x", "2", "0", "0", "0">>), Some(<<"S", "0">>), Some(<<"S", "0">>), Some("CLR - -"), Some(<<"1", "1">>),
             Hints(Some(<<"B", " ", "X">>), None, Some(<<"A">>), None), ModeON),
      SFRDef(Some(<<"4", "0", "9", "6">>), Some(<<"S", "1">>), Some(<<"S", "1">>), Some("- - -"), Some(<<"0">>),
             GrpB, ModeON),
      SFRDef(Some(<<"0", "x", "3", "0", "0", "0">>), Some(<<"R", "2">>), Some(<<"R", "2">>), None, Some(<<"1">>), GrpA, ModeON),
      SFRDef(Some(<<"0", "x", "F", "F", "F", "F", "F", "F", "F", "C">>), Some(<<"T", "0">>), Some(<<"T", "0">>), Some("CLR - -"), Some(<<"0">>),
             Hints(None, Some(<<>>), None, Some("DOS-01618_RPINRx.Module")), ModeON) }
BadInputs ==
    { RegA(Some(<<"0", "x">>), Some(<<"R", "0">>), None, Some(<<"0">>), GrpA, ModeON),
      RegA(None, Some(<<"R", "0">>), None, Some(<<"0">>), GrpA, ModeON),
      RegA(Some(<<"0", "x", "1", "0", "0", "0">>), Some(<<"R", "1">>), None, Some(<<"0">>), GrpA, ModeON),
      RegA(Some(<<"0", "x", "1", "0", "0", "0">>), Some(<<"R", "0">>), Some("CLR SET -"), Some(<<"0">>), GrpA, ModeON),
      RegA(Some(<<"0", "x", "1", "0", "0", "0">>), Some(<<"R", "0">>), None, Some(<<"1", "2">>), GrpA, ModeON),
      RegA(Some(<<"0", "x", "1", "0", "0", "0">>), Some(<<"R", "0">>), None, Some(<<"0">>), Hints(None, None, None, None), ModeON),
      RegA(Some(<<"0", "x", "1", "0", "0", "0">>), Some(<<"R", "0">>), None, Some(<<"0">>),
           Hints(None, None, None, Some("DOS-00000_unknown.Module")), ModeON),
      RegA(Some(<<"0", "x", "1", "0", "0", "0">>), Some(<<"R", "0">>), None, Some(<<"0">>), GrpA, None),
      RegA(Some(<<"0", "x", "1", "0", "0", "0">>), Some(<<"R", "0">>), None, Some(<<"0">>), GrpA, Some(None)),
      RegA(Some(<<"0", "x", "1", "0", "0", "0">>), Some(<<"R", "0">>), None, Some(<<"0">>), GrpA, Some(Some(<<OtherEntry>>))),
      RegA(Some(<<"0", "x", "1", "0", "0", "0">>), Some(<<"R", "0">>), None, Some(<<"0">>), GrpA,
           Some(Some(<<SFRFieldDef(Some(<<"O", "N">>), Some(<<"O", "N">>), Some(<<"w">>))>>))),
      RegA(Some(<<"0", "x", "1", "0", "0", "0">>), Some(<<"R", "0">>), None, Some(<<"0">>), GrpA,
           Some(Some(<<AdjustPoint(None)>>))) }
\* A child of a data sector that is no SFRDef
OtherChild == Element("SFRSectionDef", NoAttrs, None)

GroupInputs == GoodInputs \cup BadInputs \cup {OtherChild}

\* Bounds of the conversions explored
MaxPhys == 2
MaxChildren == 3

\* ------------------------------------------------------ the specification
Next ==
    \/ \E c \in PhysChildren : nphys < MaxPhys /\ SkipPhysChild(c)
    \/ \E c \in PhysChildren : nphys < MaxPhys /\ EnterSector(c)
    \/ \E c \in GroupInputs : nchild < MaxChildren /\ SkipChild(c)
    \/ \E c \in GroupInputs : nchild < MaxChildren /\ ProcessSFRDef(c)
    \/ EndSector
    \/ WriteOutput

Spec == Init /\ [][Next]_vars

\* ------------------------------------------- conversions of one register
\* The entries a mode block is made of: fields of width 4, 1 (its cname
\* differing from its name), 0 and 2^32 - 1, a malformed width, adjustments
\* by 4, by 0 and by 2^32 - 4, and an entry of another kind
Entries ==
    { SFRFieldDef(Some(<<"F", "4">>), Some(<<"F", "4">>), Some(<<"4">>)),
      SFRFieldDef(Some(<<"O", "N">>), Some(<<"o", "n">>), Some(<<"0", "x", "1">>)),
      SFRFieldDef(Some(<<"Z">>), Some(<<"Z">>), Some(<<"0">>)),
      SFRFieldDef(Some(<<"M", "A", "X">>), Some(<<"M", "A", "X">>), Some(<<"4", "2", "9", "4", "9", "6", "7", "2", "9", "5">>)),
      SFRFieldDef(Some(<<"W">>), Some(<<"W">>), Some(<<"w">>)),
      AdjustPoint(Some(<<"4">>)),
      AdjustPoint(Some(<<"0">>)),
      AdjustPoint(Some(<<"4", "2", "9", "4", "9", "6", "7", "2", "9", "2">>)),
      OtherEntry }

\* Bound on the entries of a mode block
MaxEntries == 3

RECURSIVE ModeBlocks(_)
ModeBlocks(n) ==
    IF n = 0 THEN {<<>>}
    ELSE ModeBlocks(n - 1) \cup
         {Append(m, e) : m \in {b \in ModeBlocks(n - 1) : Len(b) = n - 1}, e \in Entries}

\* One register of group A at 0x1000 with a CLR variant, over every mode block
LayoutInputs ==
    { RegA(Some(<<"0", "x", "1", "0", "0", "0">>), Some(<<"R", "0">>), Some("CLR - -"), Some(<<"1", "0", "1">>), GrpA, Some(Some(m)))
        : m \in ModeBlocks(MaxEntries) } \cup {OtherChild}

\* The values of the hint attributes: absent, empty, one word, two words, a
\* leading space, a tab between two words
BopHints == {None, Some(<<>>), Some(<<"B", "P">>), Some(<<"B", "P", " ", "X">>), Some(<<" ", "B", "P">>), Some(<<"B", "P", "\t", "X">>)}
MopHints == {None, Some(<<>>), Some(<<"M", "P">>), Some(<<"M", "P", " ", "X">>), Some(<<" ", "M", "P">>), Some(<<"M", "P", "\t", "X">>)}
GrpHints == {None, Some(<<>>), Some(<<"G", "P">>), Some(<<"G", "P", " ", "X">>), Some(<<" ", "G", "P">>), Some(<<"G", "P", "\t", "X">>)}
ModsrcHints ==
    {None, Some("DOS-01618_RPINRx.Module"), Some("DOS-01618_RPORx.Module"),
     Some("DOS-01423_RPINRx.Module"), Some("DOS-01423_RPORx.Module"),
     Some("DOS-01475_lpwr_deep_sleep_ctrl_v2.Module"), Some("DOS-00000_unknown.Module")}

\* One register at 0x1000, over every combination of the hint attributes
PeriInputs ==
    { RegA(Some(<<"0", "x", "1", "0", "0", "0">>), Some(<<"R", "0">>), None, Some(<<"0">>), Hints(b, m, g, ms), ModeON)
        : b \in BopHints, m \in MopHints, g \in GrpHints, ms \in ModsrcHints }
    \cup {OtherChild}

\* Conversions whose first data-sector child is drawn from LayoutInputs and
\* is the only one
NextLayout ==
    \/ \E c \in PhysChildren : nphys < MaxPhys /\ SkipPhysChild(c)
    \/ \E c \in PhysChildren : nphys < MaxPhys /\ EnterSector(c)
    \/ \E c \in LayoutInputs : nchild = 0 /\ SkipChild(c)
    \/ \E c \in LayoutInputs : nchild = 0 /\ ProcessSFRDef(c)
    \/ EndSector
    \/ WriteOutput

SpecLayout == Init /\ [][NextLayout]_vars

\* Conversions whose first data-sector child is drawn from PeriInputs and is
\* the only one
NextPeri ==
    \/ \E c \in PhysChildren : nphys < MaxPhys /\ SkipPhysChild(c)
    \/ \E c \in PhysChildren : nphys < MaxPhys /\ EnterSector(c)
    \/ \E c \in PeriInputs : nchild = 0 /\ SkipChild(c)
    \/ \E c \in PeriInputs : nchild = 0 /\ ProcessSFRDef(c)
    \/ EndSector
    \/ WriteOutput

SpecPeri == Init /\ [][NextPeri]_vars

\* ------------------------------------------------------------- properties
\* Readings of the state used by the properties below
LastGroup == periph_out[Len(periph_out)]
BaseOf(group) == parse_u32(group.baseAddress).v
OffsetOf(reg) == parse_u32(reg.addressOffset).v
Label(elem) == GuessPeripheral(elem.attr).cperi
RECURSIVE AllRegisters(_)
AllRegisters(tree) ==
    IF tree = <<>> THEN <<>> ELSE Head(tree).registers \o AllRegisters(Tail(tree))
IsPrefix(a, b) == Len(a) <= Len(b) /\ SubSeq(b, 1, Len(a)) = a
\* the child handled last is an SFRDef and its iteration did not panic
Converted == pc = "sector" /\ child.tag = "SFRDef"
\* the step is an iteration of analyze_periph on an SFRDef
SFRDefStep == pc = "sector" /\ nchild' = nchild + 1 /\ child'.tag = "SFRDef"
\* the number of variants the portals attribute asks for
VariantCount(portals) ==
    IF portals = Some("CLR SET INV") THEN 3
    ELSE IF portals = Some("CLR - -") THEN 1 ELSE 0
\* the register emitted for the child itself: its variants follow it
BaseRegister ==
    LastGroup.registers[Len(LastGroup.registers) - VariantCount(child.attr.portals)]

\* C1 as stated: in a completed conversion the base addresses of all groups
\* of the output document, over all data sectors, are strictly increasing.
C1_IncreasingOverAllSectors ==
    outfile # None =>
        \A i \in 1..(Len(outfile[1].peripherals) - 1) :
            Lt32(BaseOf(outfile[1].peripherals[i]), BaseOf(outfile[1].peripherals[i + 1]))

\* C1 amended: within one data sector a group opened after another has a
\* strictly greater base address, and a register whose label differs from
\* the open group's and whose masked address is not greater than that
\* group's base address aborts the conversion without opening a group; the
\* first register of a sector opens its group whatever its address.
C1_IncreasingWithinSector ==
    [][/\ (pc = "sector" /\ peri # <<>> /\ Len(periph_out') > Len(periph_out))
            => Lt32(BaseOf(LastGroup), BaseOf(LastGroup'))
       /\ (SFRDefStep /\ peri # <<>> /\ Decodes(child')
             /\ Label(child') # LastGroup.name
             /\ ~Lt32(BaseOf(LastGroup), MaskedAddr(child'.attr)))
            => (pc' = "abort" /\ periph_out' = periph_out)
       /\ (SFRDefStep /\ peri = <<>> /\ Decodes(child'))
            => (Len(periph_out') = Len(periph_out) + 1
                /\ BaseOf(LastGroup') = MaskedAddr(child'.attr))
      ]_vars

\* C1 witness: in the first sector two groups with increasing bases are
\* open and a register of another label at a lower address has aborted.
C1_Witness ==
    /\ pc = "abort" /\ nphys = 1 /\ Len(periph_out) = 2
    /\ Lt32(BaseOf(periph_out[1]), BaseOf(periph_out[2]))
    /\ child.tag = "SFRDef" /\ Decodes(child)
    /\ Label(child) # LastGroup.name
    /\ ~Lt32(BaseOf(LastGroup), MaskedAddr(child.attr))

\* the registers a step appends to the output tree
Appended ==
    SubSeq(AllRegisters(periph_out'), Len(AllRegisters(periph_out)) + 1,
           Len(AllRegisters(periph_out')))
GroupNames(tree) == [i \in 1..Len(tree) |-> tree[i].name]
\* a u32 below 2^31 as an integer
AsInt(v) == v[1] * 65536 + v[2]
\* a reset pattern read as binary, every placeholder counting as 0
RECURSIVE BinaryValue(_, _)
BinaryValue(text, acc) ==
    IF text = <<>> THEN acc
    ELSE BinaryValue(Tail(text), 2 * acc + (IF Head(text) = "1" THEN 1 ELSE 0))
VariantSuffix == <<<<"C", "L", "R">>, <<"S", "E", "T">>, <<"I", "N", "V">>>>

\* C2: a converted register appends the base register with the decoded
\* reset value and then, per the portals attribute, <name>CLR at +4,
\* <name>SET at +8, <name>INV at +0xc, each with reset value 0 and the base
\* register's fields: 4 registers for "CLR SET INV", 2 for "CLR - -", 1 for
\* "- - -" or no attribute.
C2_BaseThenVariants ==
    [][(SFRDefStep /\ pc' = "sector") =>
        /\ Len(Appended) = 1 + VariantCount(child'.attr.portals)
        /\ Appended[1].name = child'.attr.name[1]
        /\ parse_u32(Appended[1].resetValue).v
             = U32Small(BinaryValue(child'.attr.mclr[1], 0))
        /\ \A i \in 2..Len(Appended) :
             /\ Appended[i].name = child'.attr.name[1] \o VariantSuffix[i - 1]
             /\ AsInt(OffsetOf(Appended[i])) = AsInt(OffsetOf(Appended[1])) + 4 * (i - 1)
             /\ Appended[i].resetValue = <<"0">>
             /\ Appended[i].fields = Appended[1].fields
      ]_vars

\* C2 witness: R0 with reset pattern 1-0xu and portals "CLR SET INV" was
\* converted into R0, R0CLR, R0SET, R0INV at 0x0, 0x4, 0x8, 0xc.
C2_Witness ==
    /\ Converted /\ child.attr.portals = Some("CLR SET INV")
    /\ Len(LastGroup.registers) = 4
    /\ [i \in 1..4 |-> LastGroup.registers[i].name]
         = <<<<"R", "0">>, <<"R", "0", "C", "L", "R">>, <<"R", "0", "S", "E", "T">>, <<"R", "0", "I", "N", "V">>>>
    /\ [i \in 1..4 |-> LastGroup.registers[i].addressOffset]
         = <<<<"0", "x", "0">>, <<"0", "x", "4">>, <<"0", "x", "8">>, <<"0", "x", "c">>>>
    /\ [i \in 1..4 |-> LastGroup.registers[i].resetValue]
         = <<<<"1", "6">>, <<"0">>, <<"0">>, <<"0">>>>

\* C3: the offset of a converted register is its masked address minus the
\* base address of its group and is not negative; the first register of
\* every group has offset 0, so the base is the masked address of the first
\* register and no register of the group lies below it.
C3_OffsetsRelativeToBase ==
    /\ Converted =>
         /\ Le32(BaseOf(LastGroup), MaskedAddr(child.attr))
         /\ ~AddOverflows(BaseOf(LastGroup), OffsetOf(BaseRegister))
         /\ WrappingAdd(BaseOf(LastGroup), OffsetOf(BaseRegister)) = MaskedAddr(child.attr)
    /\ pc # "abort" =>
         \A i \in 1..Len(periph_out) :
             /\ Len(periph_out[i].registers) >= 1
             /\ OffsetOf(periph_out[i].registers[1]) = Zero32

\* C3 witness: registers at 0x1000 and 0x1004 of one label share a group
\* based at 0xa0001000 with offsets 0x0 and 0x4, and a register of another
\* label at 0x2000 has opened a group based at its own address.
C3_Witness ==
    /\ Converted /\ Len(periph_out) = 2
    /\ periph_out[1].baseAddress = <<"0", "x", "a", "0", "0", "0", "1", "0", "0", "0">>
    /\ Len(periph_out[1].registers) = 5
    /\ periph_out[1].registers[1].addressOffset = <<"0", "x", "0">>
    /\ periph_out[1].registers[5].addressOffset = <<"0", "x", "4">>
    /\ periph_out[2].baseAddress = <<"0", "x", "a", "0", "0", "0", "2", "0", "0", "0">>
    /\ periph_out[2].registers[1].addressOffset = <<"0", "x", "0">>

\* C5: a malformed register aborts the conversion where it is met; after an
\* abort nothing more is processed and no output document exists; a written
\* document holds the tree of a conversion that went through.
C5_AbortWritesNothing ==
    /\ child \in BadInputs => pc = "abort"
    /\ pc = "abort" => (outfile = None /\ ~ENABLED Next)
    /\ outfile # None =>
         /\ pc = "done"
         /\ outfile[1].peripherals = periph_out
         /\ \A i \in 1..Len(periph_out) : Len(periph_out[i].registers) >= 1

\* C5 witness: a malformed register aborted the conversion in the second
\* sector, the tree holds the groups of the first, and nothing is written.
C5_Witness ==
    /\ pc = "abort" /\ child \in BadInputs /\ nphys = 2
    /\ Len(AllRegisters(periph_out)) >= 1 /\ outfile = None

\* C7 as stated: no two adjacent groups of the output carry the same name.
C7_AdjacentGroupsDiffer ==
    \A i \in 1..(Len(periph_out) - 1) : periph_out[i].name # periph_out[i + 1].name

\* C7 amended: within one data sector a group is opened exactly when the
\* label differs from the label of the group the sector has open, or the
\* sector has none open yet (its first register); a register with the label
\* of the open group is appended to it.  Groups opened one after the other
\* in the same sector differ in name.
C7_OpensOnLabelChangeInSector ==
    [][(SFRDefStep /\ pc' = "sector") =>
        /\ peri # <<>> => LastGroup.name = peri
        /\ IF Label(child') = peri
           THEN /\ Len(periph_out') = Len(periph_out)
                /\ GroupNames(periph_out') = GroupNames(periph_out)
                /\ IsPrefix(LastGroup.registers, LastGroup'.registers)
                /\ Len(LastGroup'.registers) > Len(LastGroup.registers)
           ELSE /\ Len(periph_out') = Len(periph_out) + 1
                /\ SubSeq(periph_out', 1, Len(periph_out)) = periph_out
                /\ LastGroup'.name = Label(child')
                /\ peri # <<>> => LastGroup'.name # LastGroup.name
      ]_vars

\* C7 witness: in the first sector R0 and R1, both of label A, lie in one
\* group and a register of another label has opened a second group.
C7_Witness ==
    /\ Converted /\ nphys = 1 /\ Len(periph_out) = 2
    /\ periph_out[1].name # periph_out[2].name
    /\ \E i, j \in 1..Len(periph_out[1].registers) :
         /\ periph_out[1].registers[i].name = <<"R", "0">>
         /\ periph_out[1].registers[j].name = <<"R", "1">>

\* C10: a converted register is appended, with its variants, to the last
\* group of the tree, which exists and is named with the register's label;
\* the registers and groups already in the tree stay where they are.
C10_AppendsToLabelledGroup ==
    [][(SFRDefStep /\ pc' = "sector") =>
        /\ Len(periph_out') >= 1
        /\ LastGroup'.name = Label(child')
        /\ Len(LastGroup'.registers) >= Len(Appended)
        /\ SubSeq(LastGroup'.registers,
                  Len(LastGroup'.registers) - Len(Appended) + 1,
                  Len(LastGroup'.registers)) = Appended
        /\ Appended[1].name = child'.attr.name[1]
        /\ IsPrefix(AllRegisters(periph_out), AllRegisters(periph_out'))
        /\ IsPrefix(GroupNames(periph_out), GroupNames(periph_out'))
      ]_vars

\* C10 witness: the first register of the second sector has the label of
\* the group before it and lies alone in a group of its own.
C10_Witness ==
    /\ Converted /\ nphys = 2 /\ Len(periph_out) >= 2
    /\ periph_out[Len(periph_out) - 1].name = LastGroup.name
    /\ LastGroup.name = Label(child)
    /\ Len(LastGroup.registers) = 1 + VariantCount(child.attr.portals)

\* ---- field layout (SpecLayout)
\* the mode block of the child handled last
Block == child.modelist[1][1]
\* the register emitted for the child and its CLR variant
EmittedRegisters == {BaseRegister, LastGroup.registers[Len(LastGroup.registers)]}
FieldsOf(reg) == IF reg.fields = None THEN <<>> ELSE reg.fields[1]
\* the two numbers of a bit range "[msb:lsb]"
ColonAt(text) == CHOOSE i \in 1..Len(text) : text[i] = ":"
MsbOf(f) == parse_u32(SubSeq(f.bitRange, 2, ColonAt(f.bitRange) - 1)).v
LsbOf(f) == parse_u32(SubSeq(f.bitRange, ColonAt(f.bitRange) + 1, Len(f.bitRange) - 1)).v
\* the width or offset an entry states, by the texts used in Entries
AmountText(entry) == IF entry.tag = "SFRFieldDef" THEN entry.nzwidth ELSE entry.offset
StatesAmount(entry) ==
    /\ entry.tag \in {"SFRFieldDef", "AdjustPoint"}
    /\ AmountText(entry) \in {Some(<<"0">>), Some(<<"0", "x", "1">>), Some(<<"4">>),
                              Some(<<"4", "2", "9", "4", "9", "6", "7", "2", "9", "2">>), Some(<<"4", "2", "9", "4", "9", "6", "7", "2", "9", "5">>)}
AmountOf(entry) ==
    IF AmountText(entry) = Some(<<"0", "x", "1">>) THEN U32(0, 1)
    ELSE IF AmountText(entry) = Some(<<"4">>) THEN U32(0, 4)
    ELSE IF AmountText(entry) = Some(<<"4", "2", "9", "4", "9", "6", "7", "2", "9", "2">>) THEN U32(65535, 65532)
    ELSE IF AmountText(entry) = Some(<<"4", "2", "9", "4", "9", "6", "7", "2", "9", "5">>) THEN U32(65535, 65535)
    ELSE Zero32
\* every entry states a width or offset of at most 4, widths of 0 included
SmallBlock(block) ==
    \A i \in 1..Len(block) : StatesAmount(block[i]) /\ AmountOf(block[i])[1] = 0
\* the ranges <<msb, lsb>> of the fields of a block, in integers
RECURSIVE RangesFrom(_, _)
RangesFrom(block, cursor) ==
    IF block = <<>> THEN <<>>
    ELSE IF Head(block).tag = "SFRFieldDef"
    THEN <<<<cursor + AmountOf(Head(block))[2] - 1, cursor>>>>
         \o RangesFrom(Tail(block), cursor + AmountOf(Head(block))[2])
    ELSE RangesFrom(Tail(block), cursor + AmountOf(Head(block))[2])
HasRanges(reg, ranges) ==
    /\ Len(FieldsOf(reg)) = Len(ranges)
    /\ \A i \in 1..Len(ranges) :
         /\ ranges[i][1] >= 0
         /\ MsbOf(FieldsOf(reg)[i]) = U32Small(ranges[i][1])
         /\ LsbOf(FieldsOf(reg)[i]) = U32Small(ranges[i][2])

\* C6 as stated, for widths and offsets up to 4 with width 0 included: the
\* register is converted and its fields have the ranges
\* [cursor + w - 1 : cursor] of a cursor that starts at 0 and advances by
\* every width and offset.
C6_AnyWidth ==
    (child.tag = "SFRDef" /\ pc \in {"sector", "abort"} /\ SmallBlock(Block)) =>
        /\ pc = "sector"
        /\ \A reg \in EmittedRegisters : HasRanges(reg, RangesFrom(Block, 0))

\* the cursor never leaves u32 and no field has width 0
RECURSIVE Fits(_, _)
Fits(block, cursor) ==
    \/ block = <<>>
    \/ /\ StatesAmount(Head(block))
       /\ Head(block).tag = "SFRFieldDef" => AmountOf(Head(block)) # Zero32
       /\ ~AddOverflows(cursor, AmountOf(Head(block)))
       /\ Fits(Tail(block), WrappingAdd(cursor, AmountOf(Head(block))))
\* the u32 ranges <<msb, lsb>> of the fields of a block that fits
RECURSIVE RangesFrom32(_, _)
RangesFrom32(block, cursor) ==
    IF block = <<>> THEN <<>>
    ELSE IF Head(block).tag = "SFRFieldDef"
    THEN <<<<WrappingSub(WrappingAdd(cursor, AmountOf(Head(block))), U32(0, 1)), cursor>>>>
         \o RangesFrom32(Tail(block), WrappingAdd(cursor, AmountOf(Head(block))))
    ELSE RangesFrom32(Tail(block), WrappingAdd(cursor, AmountOf(Head(block))))
HasRanges32(reg, ranges) ==
    /\ Len(FieldsOf(reg)) = Len(ranges)
    /\ \A i \in 1..Len(ranges) :
         /\ MsbOf(FieldsOf(reg)[i]) = ranges[i][1]
         /\ LsbOf(FieldsOf(reg)[i]) = ranges[i][2]
         /\ Le32(ranges[i][2], ranges[i][1])
         /\ i > 1 => Lt32(ranges[i - 1][1], ranges[i][2])

\* C6 amended: when every field has a width of at least 1 and the cursor
\* stays below 2^32, each emitted register (base and variant) starts from
\* cursor 0, every field gets [cursor + w - 1 : cursor] and advances the
\* cursor by w, every adjustment advances it by its offset and emits no
\* field, and the ranges are ascending and pairwise disjoint. A first field
\* of width 0 aborts a debug build and gets [4294967295:0] in a release
\* build.
C6_PositiveWidths ==
    /\ (child.tag = "SFRDef" /\ pc \in {"sector", "abort"} /\ Fits(Block, Zero32)) =>
          /\ pc = "sector"
          /\ \A reg \in EmittedRegisters : HasRanges32(reg, RangesFrom32(Block, Zero32))
    /\ (child.tag = "SFRDef" /\ pc \in {"sector", "abort"} /\ Block # <<>>
           /\ Head(Block).tag = "SFRFieldDef" /\ AmountText(Head(Block)) = Some(<<"0">>)) =>
          /\ build = "debug" => pc = "abort"
          /\ pc = "sector" => \A reg \in EmittedRegisters :
               FieldsOf(reg) # <<>> =>
                   FieldsOf(reg)[1].bitRange = <<"[", "4", "2", "9", "4", "9", "6", "7", "2", "9", "5", ":", "0", "]">>

\* C6 witness: widths 4 and 4 with an adjustment of 4 between them gave
\* [3:0] and [11:8], in the base register and in its CLR variant.
C6_Witness ==
    /\ Converted /\ Len(Block) = 3
    /\ [i \in 1..3 |-> AmountText(Block[i])] = <<Some(<<"4">>), Some(<<"4">>), Some(<<"4">>)>>
    /\ [i \in 1..3 |-> Block[i].tag] = <<"SFRFieldDef", "AdjustPoint", "SFRFieldDef">>
    /\ \A reg \in EmittedRegisters :
         [i \in 1..2 |-> FieldsOf(reg)[i].bitRange] = <<<<"[", "3", ":", "0", "]">>, <<"[", "1", "1", ":", "8", "]">>>>
    /\ Cardinality(EmittedRegisters) = 2

\* C9: a register (base or variant) has a fields element exactly when the
\* field definitions of its mode block have a total width above zero;
\* adjustment entries alone never attach one.
C9_FieldsIffFieldWidth ==
    (Converted /\ \A i \in 1..Len(Block) : StatesAmount(Block[i])) =>
        \A reg \in EmittedRegisters :
            reg.fields # None <=>
                \E i \in 1..Len(Block) :
                    Block[i].tag = "SFRFieldDef" /\ AmountOf(Block[i]) # Zero32

\* ---- peripheral inference (SpecPeri)
IsBlank(c) == c \in {" ", "\t"}
NoBlanks(hint) == hint = None \/ \A i \in 1..Len(hint[1]) : ~IsBlank(hint[1][i])
\* the name the _modsrc table gives
TableName(ms) ==
    IF ms \in {Some("DOS-01618_RPINRx.Module"), Some("DOS-01618_RPORx.Module"),
               Some("DOS-01423_RPINRx.Module"), Some("DOS-01423_RPORx.Module")}
    THEN Some(<<"P", "P", "S">>)
    ELSE IF ms = Some("DOS-01475_lpwr_deep_sleep_ctrl_v2.Module") THEN Some(<<"D", "S", "C", "T", "R", "L">>)
    ELSE IF ms = None THEN None ELSE Some(<<>>)
\* the hints in priority order
Candidates(attr) ==
    <<attr.baseofperipheral, attr.memberofperipheral, attr.grp, TableName(attr.modsrc)>>
Handled == child.tag = "SFRDef" /\ pc \in {"sector", "abort"}
\* the conversion of the child went through with this label, or aborted
ResolvesTo(name) ==
    IF name # <<>> THEN pc = "sector" /\ LastGroup.name = name ELSE pc = "abort"
HintsWithoutBlanks ==
    /\ NoBlanks(child.attr.baseofperipheral)
    /\ NoBlanks(child.attr.memberofperipheral)
    /\ NoBlanks(child.attr.grp)

\* C4 as stated, for hints without whitespace: the label is the first
\* non-empty candidate, any empty hint being skipped, and the conversion
\* aborts only when there is none.
C4_FirstNonEmptyHint ==
    (Handled /\ HintsWithoutBlanks) =>
        LET c == Candidates(child.attr)
            nonEmpty == {i \in 1..4 : c[i] # None /\ c[i] # Some(<<>>)}
        IN  IF nonEmpty = {} THEN pc = "abort"
            ELSE ResolvesTo(c[CHOOSE i \in nonEmpty : \A j \in nonEmpty : i <= j][1])

\* C4 amended: the label comes from the first candidate that is present,
\* where only memberofperipheral counts as absent when it is empty; when
\* that candidate is empty (an empty baseofperipheral or grp, a _modsrc
\* outside the table) or no candidate is present, the conversion aborts.
C4_FirstPresentHint ==
    (Handled /\ HintsWithoutBlanks) =>
        LET c == Candidates(child.attr)
            present == {i \in 1..4 : c[i] # None /\ (i = 2 => c[i] # Some(<<>>))}
        IN  IF present = {} THEN pc = "abort"
            ELSE ResolvesTo(c[CHOOSE i \in present : \A j \in present : i <= j][1])

\* C4 witness: no baseofperipheral, an empty memberofperipheral and grp GP
\* resolved to GP.
C4_Witness ==
    /\ Converted
    /\ child.attr.baseofperipheral = None
    /\ child.attr.memberofperipheral = Some(<<>>)
    /\ child.attr.grp = Some(<<"G", "P">>)
    /\ LastGroup.name = <<"G", "P">>

\* the first maximal run of characters that are no whitespace
RECURSIVE TokenFrom(_)
TokenFrom(text) ==
    IF text = <<>> \/ IsBlank(Head(text)) THEN <<>>
    ELSE <<Head(text)>> \o TokenFrom(Tail(text))
RECURSIVE FirstToken(_)
FirstToken(text) ==
    IF text = <<>> THEN <<>>
    ELSE IF IsBlank(Head(text)) THEN FirstToken(Tail(text))
    ELSE TokenFrom(text)
\* the text before the first space character
RECURSIVE BeforeSpace(_)
BeforeSpace(text) ==
    IF text = <<>> \/ Head(text) = " " THEN <<>>
    ELSE <<Head(text)>> \o BeforeSpace(Tail(text))

\* C8 as stated: the label is the first whitespace-delimited token of the
\* resolved name, and the conversion aborts only when there is no token.
C8_FirstWhitespaceToken ==
    (Handled /\ PeripheralHint(child.attr) # None) =>
        ResolvesTo(FirstToken(PeripheralHint(child.attr)[1]))

\* C8 amended: the label is the text of the resolved name before its first
\* space character; a tab does not end it; the conversion aborts for an
\* empty label exactly when the resolved name is empty or starts with a
\* space.
C8_TextBeforeFirstSpace ==
    (Handled /\ PeripheralHint(child.attr) # None) =>
        /\ ResolvesTo(BeforeSpace(PeripheralHint(child.attr)[1]))
        /\ pc = "abort" <=>
             \/ PeripheralHint(child.attr)[1] = <<>>
             \/ Head(PeripheralHint(child.attr)[1]) = " "

\* C8 witness: the grp hint "GP<tab>X" gave the label "GP<tab>X".
C8_Witness ==
    /\ Converted
    /\ PeripheralHint(child.attr) = Some(<<"G", "P", "\t", "X">>)
    /\ LastGroup.name = <<"G", "P", "\t", "X">>

====
